---------------------------- MODULE Spec2Model ----------------------------
(***************************************************************************)
(* A model of the native bridge of src/demo: loadModel, generateText and   *)
(* unloadModel of llama_jni_new.c ("new"), llama_jni.c ("old") and         *)
(* llama_jni_simple.c ("simple", the mock build).                          *)
(*                                                                         *)
(* The inference engine (llama.h) is the environment: every engine call    *)
(* that can fail fails or succeeds nondeterministically, and the sampled   *)
(* tokens are drawn from a small vocabulary.  The process heap is modelled *)
(* as pools of addresses with a status each, so that leaks, double frees   *)
(* and reads of freed memory are visible in the state.                     *)
(***************************************************************************)
EXTENDS Integers, Sequences, FiniteSets, TLC

(***************************************************************************)
(* Program constants.                                                      *)
(***************************************************************************)
MAX_PROMPT_LENGTH == 4096
MAX_RESPONSE_LENGTH == 8192
DEFAULT_MAX_TOKENS == 512
RESPONSE_MARGIN == 256
TOKEN_STR_SIZE == 256
N_CTX == 2048
MOCK_MODEL_ID == 12345

(***************************************************************************)
(* Bounds of the model.                                                    *)
(***************************************************************************)
\* size of each address pool (session structs, models, contexts, samplers)
MaxSessions == 2
\* number of loadModel calls that reach llama_backend_init
MaxLoads == 2
\* number of handler calls the host makes with a handle whose struct is freed
MaxStale == 1
\* number of leading loop iterations in which the sampler may return any
\* token; from then on it repeats its previous token or ends the generation
MaxVaried == 2

VARIABLES
    variant,      \* which build of the library is loaded: "new", "old", "simple"
    heap,         \* session struct storage: address -> "unalloc" | "live" | "freed"
    sess,         \* contents of the session struct at each address
    obj,          \* engine objects: kind -> address -> "unalloc" | "live" | "freed"
    backend_up,   \* process-wide backend: TRUE after init, FALSE after free
    n_init,       \* number of llama_backend_init calls so far
    n_free,       \* number of llama_backend_free calls so far
    global_model, \* static global_model of the mock build (0 = NULL)
    faults,       \* memory errors that have happened (double frees, stale reads)
    issued,       \* the non-zero handles loadModel has returned to the host
    n_stale,      \* calls made so far with a handle whose struct was not live
    last,         \* the most recent handler call: op, ret, thrown, log
    \* ---- the generateText call in progress ----
    pc,           \* where the handler stands: "idle", "clear", ..., "done"
    call,         \* the call's arguments, until the handler has read them last
    loc,          \* the handler's locals
    response,     \* the pieces copied into the response buffer, run-length coded
    mem,          \* buffers of the call: number of acquisitions and releases
    eng,          \* number of engine calls of each kind made by the call
    engine,       \* what the session's context and sampler retain between calls
    sampled,      \* the tokens llama_sampler_sample returned, run-length coded
    out,          \* the outcome of the call: ret, text, thrown, stop
    \* ---- host threads that call generateText without coordination ----
    thr           \* each thread's position in its call and the handle it passed

genVars == <<pc, call, loc, response, mem, eng, engine, sampled, out, thr>>

lifeVars == <<variant, heap, sess, obj, backend_up, n_init, n_free,
              global_model, faults, issued, n_stale, last>>

Addr == 1..MaxSessions
Kinds == {"model", "ctx", "sampler"}
Variants == {"new", "old", "simple"}
NullSession == [model |-> 0, ctx |-> 0, sampler |-> 0, model_id |-> 0, is_loaded |-> 0]

(***************************************************************************)
(* The machine state a handler threads through its calls: the part of the  *)
(* state the lifecycle handlers read and write, plus the log of the call.  *)
(***************************************************************************)
Machine ==
    [heap |-> heap, sess |-> sess, obj |-> obj, backend_up |-> backend_up,
     n_init |-> n_init, n_free |-> n_free, global_model |-> global_model,
     faults |-> faults, log |-> <<>>, thrown |-> "none", ret |-> 0]

Log(st, ev) == [st EXCEPT !.log = Append(@, ev)]

\* llama_backend_init(): process-wide, counted
llama_backend_init(st) ==
    Log([st EXCEPT !.backend_up = TRUE, !.n_init = @ + 1], "llama_backend_init")

\* mutant: the backend keeps a count of its users and shuts down with the last
llama_backend_free_refCounted(st) ==
    Log([st EXCEPT !.backend_up = st.n_init - (st.n_free + 1) > 0,
                   !.n_free = @ + 1], "llama_backend_free")

\* llama_backend_free(): process-wide, counted
llama_backend_free(st) ==
    Log([st EXCEPT !.backend_up = FALSE, !.n_free = @ + 1], "llama_backend_free")

\* an engine constructor that returned object id of kind k
EngineNew(st, k, id) ==
    Log([st EXCEPT !.obj[k][id] = "live"], "new_" \o k)

\* the engine destructor of kind k on object id; freeing a non-live object is a fault
EngineFree(st, k, id) ==
    Log([st EXCEPT !.obj[k][id] = "freed",
                   !.faults = IF st.obj[k][id] = "live" THEN @
                              ELSE @ \cup {"double_free_" \o k}],
        "free_" \o k)

llama_free_model(st, id) == EngineFree(st, "model", id)
llama_free(st, id) == EngineFree(st, "ctx", id)
llama_sampler_free(st, id) == EngineFree(st, "sampler", id)

\* free(model_ctx): the struct's storage is released, its bytes stay as they were
free_struct(st, a) ==
    Log([st EXCEPT !.heap[a] = "freed",
                   !.faults = IF st.heap[a] = "live" THEN @
                              ELSE @ \cup {"double_free_struct"}],
        "free_struct")

\* (*env)->ThrowNew(env, FindClass(env, exc), ...): the exception is pending
Throw(st, exc) == Log([st EXCEPT !.thrown = exc], "throw_" \o exc)

\* return v
Return(st, v) == [st EXCEPT !.ret = v]

Lowest(S) == IF S = {} THEN {} ELSE {CHOOSE x \in S : \A y \in S : x <= y}

\* The addresses an allocation may return: a block never used before or a
\* block freed earlier (addresses of one class are interchangeable, so the
\* lowest of each class stands for the class).  An empty pool leaves only
\* the NULL result.
FreeIds(k) == Lowest({id \in Addr : obj[k][id] = "unalloc"})
              \cup Lowest({id \in Addr : obj[k][id] = "freed"})
FreeAddrs == Lowest({a \in Addr : heap[a] = "unalloc"})
             \cup Lowest({a \in Addr : heap[a] = "freed"})

(***************************************************************************)
(* loadModel of the engine builds ("new" and "old": the two differ only in *)
(* the names of the engine's constructors and destructors).                *)
(***************************************************************************)
PathKinds == {"null", "empty", "unreadable", "valid"}

\* mutant: the failure branch forgets llama_backend_free
LoadFailModel_noBackendFree(st) ==
    Return(Throw(st, "RuntimeException"), 0)

\* mutant: the failed model load is reported as an argument error
LoadFailModel_illegalArgument(st) ==
    Return(Throw(llama_backend_free(st), "IllegalArgumentException"), 0)

\* model == NULL: only the backend was acquired
LoadFailModel(st) ==
    Return(Throw(llama_backend_free(st), "RuntimeException"), 0)

\* mutant: the failure branch forgets llama_free_model
LoadFailCtx_leakModel(st, m) ==
    Return(Throw(llama_backend_free(st), "RuntimeException"), 0)

\* ctx == NULL: the model and the backend were acquired
LoadFailCtx(st, m) ==
    Return(Throw(llama_backend_free(llama_free_model(st, m)),
                 "RuntimeException"), 0)

\* sampler == NULL: context, model and backend were acquired
LoadFailSampler(st, m, c) ==
    Return(Throw(llama_backend_free(llama_free_model(llama_free(st, c), m)),
                 "RuntimeException"), 0)

\* model_ctx == NULL: sampler, context, model and backend were acquired
LoadFailStruct(st, m, c, s) ==
    Return(Throw(llama_backend_free(
                   llama_free_model(llama_free(llama_sampler_free(st, s), c), m)),
                 "OutOfMemoryError"), 0)

\* the four llama_sampler_chain_add calls, in the order of the source
SamplerChain(st) ==
    Log(Log(Log(Log(st, "chain_add_top_k"), "chain_add_top_p"),
            "chain_add_temp"), "chain_add_dist")

\* mutant: the sampler field of the new struct is left NULL
LoadFill_noSampler(st, m, c, s, a) ==
    Return([Log(st, "malloc_struct") EXCEPT
               !.heap[a] = "live",
               !.sess[a] = [NullSession EXCEPT !.model = m, !.ctx = c]],
           a)

\* model_ctx->model = model; ->ctx = ctx; ->sampler = sampler; return model_ctx
LoadFill(st, m, c, s, a) ==
    Return([Log(st, "malloc_struct") EXCEPT
               !.heap[a] = "live",
               !.sess[a] = [NullSession EXCEPT !.model = m, !.ctx = c, !.sampler = s]],
           a)

\* mutant: the engine gives a model whatever the path
EngineLoadResult_anyPath(path, m) == m

\* the engine reads the file: a path it cannot read gives no model
EngineLoadResult(path, m) == IF path = "valid" THEN m ELSE 0

loadModel_engine(st, path, utf_ok, m0, c, s, a) ==
    IF path = "null" THEN Return(Throw(st, "IllegalArgumentException"), 0)
    ELSE IF ~utf_ok THEN Return(Throw(st, "OutOfMemoryError"), 0)
    ELSE
      LET m  == EngineLoadResult(path, m0)
          s1 == Log(llama_backend_init(st), "load_from_file")
          s2 == Log(s1, "release_path")
      IN  IF m = 0 THEN LoadFailModel(s2)
          ELSE
            LET s3 == EngineNew(s2, "model", m)
            IN  IF c = 0 THEN LoadFailCtx(s3, m)
                ELSE
                  LET s4 == EngineNew(s3, "ctx", c)
                  IN  IF s = 0 THEN LoadFailSampler(s4, m, c)
                      ELSE
                        LET s5 == SamplerChain(EngineNew(s4, "sampler", s))
                        IN  IF a = 0 THEN LoadFailStruct(s5, m, c, s)
                            ELSE LoadFill(s5, m, c, s, a)

(***************************************************************************)
(* loadModel of the mock build: no engine, a struct with a magic number.   *)
(***************************************************************************)
loadModel_simple(st, path, utf_ok, a) ==
    IF path = "null" THEN Return(Throw(st, "IllegalArgumentException"), 0)
    ELSE IF ~utf_ok THEN Return(Throw(st, "OutOfMemoryError"), 0)
    ELSE
      LET s1 == Log(st, "file_exists")
      IN  IF a = 0
          THEN Return(Throw(Log(s1, "release_path"), "OutOfMemoryError"), 0)
          ELSE Return([Log(Log(s1, "malloc_struct"), "release_path") EXCEPT
                          !.heap[a] = "live",
                          !.sess[a] = [NullSession EXCEPT !.model_id = MOCK_MODEL_ID,
                                                          !.is_loaded = 1],
                          !.global_model = a],
                      a)

loadModel(st, path, utf_ok, m, c, s, a) ==
    IF variant = "simple" THEN loadModel_simple(st, path, utf_ok, a)
    ELSE loadModel_engine(st, path, utf_ok, m, c, s, a)

(***************************************************************************)
(* unloadModel.  rd is the session struct as the handler reads it.         *)
(***************************************************************************)
UnloadSampler(st, rd) ==
    IF rd.sampler # 0 THEN llama_sampler_free(st, rd.sampler) ELSE st

\* mutant: the context is never freed
UnloadCtx_never(st, rd) == st

UnloadCtx(st, rd) ==
    IF rd.ctx # 0 THEN llama_free(st, rd.ctx) ELSE st

UnloadModelObj(st, rd) ==
    IF rd.model # 0 THEN llama_free_model(st, rd.model) ELSE st

\* mutant: the backend is shut down before the session's objects are freed
unloadModel_engine_backendFirst(st, h, rd) ==
    IF h = 0 THEN st
    ELSE free_struct(UnloadModelObj(UnloadCtx(UnloadSampler(
           llama_backend_free(st), rd), rd), rd), h)

\* mutant: unloadModel of the zero handle shuts the backend down
unloadModel_engine_nullTearsDown(st, h, rd) ==
    IF h = 0 THEN llama_backend_free(st)
    ELSE llama_backend_free(
           free_struct(UnloadModelObj(UnloadCtx(UnloadSampler(st, rd), rd), rd), h))

unloadModel_engine(st, h, rd) ==
    IF h = 0 THEN st
    ELSE llama_backend_free(
           free_struct(UnloadModelObj(UnloadCtx(UnloadSampler(st, rd), rd), rd), h))

unloadModel_simple(st, h) ==
    IF h = 0 THEN st
    ELSE free_struct([st EXCEPT !.global_model = IF @ = h THEN 0 ELSE @], h)

unloadModel(st, h, rd) ==
    IF variant = "simple" THEN unloadModel_simple(st, h)
    ELSE unloadModel_engine(st, h, rd)

(***************************************************************************)
(* Reading the fields of the struct a handle points to.  A live struct     *)
(* gives its fields.  A freed struct is a dangling read: each field may    *)
(* still hold what was stored or may read as NULL.                         *)
(***************************************************************************)
StructReads(h) ==
    IF heap[h] = "live" THEN {sess[h]}
    ELSE {[model |-> m, ctx |-> c, sampler |-> s, model_id |-> i, is_loaded |-> l] :
            m \in {0, sess[h].model}, c \in {0, sess[h].ctx},
            s \in {0, sess[h].sampler}, i \in {0, sess[h].model_id},
            l \in {0, sess[h].is_loaded}}

\* the handler dereferences the handle (the mock unloadModel reads no field)
Deref(st, h) ==
    IF heap[h] = "live" THEN st
    ELSE [st EXCEPT !.faults = @ \cup {"read_freed"}]

Stale(h) == h # 0 /\ heap[h] # "live"

\* the handles the host can pass: null, or one loadModel gave it
HostHandles == {0} \cup issued

NoArgs == [path |-> "none", utf_ok |-> TRUE, h |-> 0]

Commit(st, op, args) ==
    /\ heap' = st.heap
    /\ sess' = st.sess
    /\ obj' = st.obj
    /\ backend_up' = st.backend_up
    /\ n_init' = st.n_init
    /\ n_free' = st.n_free
    /\ global_model' = st.global_model
    /\ faults' = st.faults
    /\ last' = [op |-> op, args |-> args, ret |-> st.ret, thrown |-> st.thrown,
                 log |-> st.log]

LoadModel ==
    /\ n_init < MaxLoads
    /\ \E path \in PathKinds, utf_ok \in BOOLEAN :
       \E m \in IF variant # "simple" THEN FreeIds("model") \cup {0} ELSE {0} :
       \E c \in IF m # 0 THEN FreeIds("ctx") \cup {0} ELSE {0} :
       \E s \in IF c # 0 THEN FreeIds("sampler") \cup {0} ELSE {0} :
       \E a \in IF s # 0 \/ variant = "simple" THEN FreeAddrs \cup {0} ELSE {0} :
         LET r == loadModel(Machine, path, utf_ok, m, c, s, a)
         IN  /\ Commit(r, "loadModel", [NoArgs EXCEPT !.path = path, !.utf_ok = utf_ok])
             /\ issued' = IF r.ret # 0 THEN issued \cup {r.ret} ELSE issued
    /\ UNCHANGED <<variant, n_stale>>
    /\ UNCHANGED genVars

UnloadModel ==
    /\ \E h \in HostHandles :
         /\ Stale(h) => n_stale < MaxStale
         /\ n_stale' = IF Stale(h) THEN n_stale + 1 ELSE n_stale
         /\ IF h = 0 \/ variant = "simple"
            THEN Commit(unloadModel(Machine, h, NullSession), "unloadModel",
                        [NoArgs EXCEPT !.h = h])
            ELSE \E rd \in StructReads(h) :
                   Commit(unloadModel(Deref(Machine, h), h, rd), "unloadModel",
                          [NoArgs EXCEPT !.h = h])
    /\ UNCHANGED <<variant, issued>>
    /\ UNCHANGED genVars

\* given: the arguments of a call in progress that are still to be read;
\* rd: the session struct as the call read it (NullSession if it read none)
NoGenArgs == [given |-> FALSE, h |-> 0, rd |-> NullSession, prompt_null |-> FALSE,
              prompt_units |-> 0, prompt_len |-> 0, utf_ok |-> TRUE, maxTokens |-> 0]
NoLocals == [max_gen_tokens |-> 0, n_tokens |-> 0, i |-> 0, response_pos |-> 0,
             generated_tokens |-> 0, next_token |-> "none", token_len |-> 0,
             hi_write |-> -1, prime_batch |-> -1]
NoMem == [chars_get |-> 0, chars_release |-> 0, tokens_malloc |-> 0,
          tokens_free |-> 0, response_malloc |-> 0, response_free |-> 0]
NoEng == [clear |-> 0, tokenize |-> 0, decode |-> 0, sample |-> 0, accept |-> 0,
          piece |-> 0]
NoOut == [ret |-> "pending", text |-> <<>>, thrown |-> "none", stop |-> "none"]

\* the host threads of the concurrent specification
Threads == {"t1", "t2"}

\* a thread outside generateText; alone: no other thread's step and no
\* unloadModel has happened since the thread's call began
IdleThread == [pc |-> "idle", h |-> 0, alone |-> TRUE]

InitGenIdle ==
    /\ thr = [t \in Threads |-> IdleThread]
    /\ pc = "idle"
    /\ call = NoGenArgs
    /\ loc = NoLocals
    /\ response = <<>>
    /\ mem = NoMem
    /\ eng = NoEng
    /\ engine = [kv |-> "empty", sampler |-> "fresh"]
    /\ sampled = <<>>
    /\ out = NoOut

InitLife ==
    /\ variant \in Variants
    /\ heap = [a \in Addr |-> "unalloc"]
    /\ sess = [a \in Addr |-> NullSession]
    /\ obj = [k \in Kinds |-> [a \in Addr |-> "unalloc"]]
    /\ backend_up = FALSE
    /\ n_init = 0
    /\ n_free = 0
    /\ global_model = 0
    /\ faults = {}
    /\ issued = {}
    /\ n_stale = 0
    /\ last = [op |-> "none", args |-> NoArgs, ret |-> 0, thrown |-> "none",
                log |-> <<>>]
    /\ InitGenIdle

vars == <<variant, heap, sess, obj, backend_up, n_init, n_free,
          global_model, faults, issued, n_stale, last,
          pc, call, loc, response, mem, eng, engine, sampled, out, thr>>

NextLife == LoadModel \/ UnloadModel

SpecLife == InitLife /\ [][NextLife]_vars

(***************************************************************************)
(* unloadModel as a function of the struct it is handed: the handle points *)
(* to a live struct of an engine build in which each of model, context and *)
(* sampler is either NULL or a live object of its kind.                    *)
(***************************************************************************)
InitPartial ==
    /\ variant \in {"new", "old"}
    /\ \E a \in Addr, m \in {0} \cup Addr, c \in {0} \cup Addr, s \in {0} \cup Addr :
         /\ heap = [x \in Addr |-> IF x = a THEN "live" ELSE "unalloc"]
         /\ sess = [x \in Addr |->
                      IF x = a
                      THEN [NullSession EXCEPT !.model = m, !.ctx = c, !.sampler = s]
                      ELSE NullSession]
         /\ obj = [k \in Kinds |-> [x \in Addr |->
                      IF x = [model |-> m, ctx |-> c, sampler |-> s][k]
                      THEN "live" ELSE "unalloc"]]
         /\ issued = {a}
    /\ backend_up = TRUE
    /\ n_init = 1
    /\ n_free = 0
    /\ global_model = 0
    /\ faults = {}
    /\ n_stale = 0
    /\ last = [op |-> "none", args |-> NoArgs, ret |-> 0, thrown |-> "none",
                log |-> <<>>]
    /\ InitGenIdle

NextPartial == UnloadModel

SpecPartial == InitPartial /\ [][NextPartial]_vars

(***************************************************************************)
(* generateText.  The handler is a sequence of steps, one per engine call  *)
(* or allocation; the engine's answers are chosen at each step.            *)
(***************************************************************************)
\* the vocabulary: the end-of-generation token and tokens whose piece is an
\* error code, empty, one short of the piece buffer, and the full piece buffer
EOS == "eos"
Vocab == {EOS, "bad", "empty", "mid", "full"}

\* llama_token_to_piece(..., token_str, sizeof(token_str), ...): the length
\* written, at most the buffer size, or a negative error code
llama_token_to_piece(t) ==
    CASE t = "bad" -> -1
      [] t = "empty" -> 0
      [] t = "mid" -> TOKEN_STR_SIZE - 1
      [] t = "full" -> TOKEN_STR_SIZE
      [] OTHER -> 4

\* What the host passes: no string, or a Java string given by the number of
\* its UTF-16 code units whose modified UTF-8 form takes one byte (U+0001 ..
\* U+007F), two bytes (U+0000 and U+0080 .. U+07FF) and three bytes (the
\* rest, each half of a surrogate pair included).
PromptInputs ==
    {[null |-> TRUE, one |-> 0, two |-> 0, three |-> 0]}
    \cup {[null |-> FALSE, one |-> n, two |-> 0, three |-> 0] :
            n \in {0, 1, MAX_PROMPT_LENGTH, MAX_PROMPT_LENGTH + 1}}
    \cup {[null |-> FALSE, one |-> MAX_PROMPT_LENGTH - 2, two |-> 1, three |-> 0],
          [null |-> FALSE, one |-> MAX_PROMPT_LENGTH - 1, two |-> 1, three |-> 0],
          [null |-> FALSE, one |-> 1, two |-> 0, three |-> MAX_PROMPT_LENGTH \div 3]}

\* the length of the Java string in UTF-16 code units
StringLength(prompt) == prompt.one + prompt.two + prompt.three

\* strlen of what GetStringUTFChars returns: the bytes of the modified UTF-8
\* form, which holds no zero byte before its end
PromptLen(prompt) == prompt.one + 2 * prompt.two + 3 * prompt.three

\* maxTokens is a jint: both ends of its range are among the inputs
MaxTokensInputs ==
    {-2147483647 - 1, -1, 0, 1, 2, DEFAULT_MAX_TOKENS, DEFAULT_MAX_TOKENS + 1,
     2147483646 + 1}
\* what llama_tokenize may return
TokenizeResults == {-1, 0, 1, N_CTX - 1, N_CTX}

\* mutant: the upper bound of the range test is dropped
SanitizeMaxTokens_noUpper(maxTokens) ==
    IF maxTokens > 0 THEN maxTokens ELSE DEFAULT_MAX_TOKENS

\* int max_gen_tokens = (maxTokens > 0 && maxTokens <= DEFAULT_MAX_TOKENS)
\*                          ? maxTokens : DEFAULT_MAX_TOKENS;
SanitizeMaxTokens(maxTokens) ==
    IF maxTokens > 0 /\ maxTokens <= DEFAULT_MAX_TOKENS
    THEN maxTokens ELSE DEFAULT_MAX_TOKENS

\* llama_jni.c's generateText has no maxTokens parameter
EffectiveMaxTokens(maxTokens) ==
    IF variant = "new" THEN SanitizeMaxTokens(maxTokens) ELSE DEFAULT_MAX_TOKENS

\* mutant: the limit itself is rejected
PromptLenInvalid_limitExcluded(prompt_len) ==
    prompt_len = 0 \/ prompt_len >= MAX_PROMPT_LENGTH

\* mutant: the empty prompt is let through
PromptLenInvalid_allowEmpty(prompt_len) == prompt_len > MAX_PROMPT_LENGTH

\* prompt_len == 0 || prompt_len > MAX_PROMPT_LENGTH
PromptLenInvalid(prompt_len) == prompt_len = 0 \/ prompt_len > MAX_PROMPT_LENGTH

\* mutant: only the model pointer is tested
InvalidModelState_modelOnly(rd) ==
    IF variant = "simple"
    THEN rd.model_id # MOCK_MODEL_ID \/ rd.is_loaded = 0
    ELSE rd.model = 0

\* the state test on the struct: three pointers in the engine builds, the
\* magic number and the loaded flag in the mock build
InvalidModelState(rd) ==
    IF variant = "simple"
    THEN rd.model_id # MOCK_MODEL_ID \/ rd.is_loaded = 0
    ELSE rd.model = 0 \/ rd.ctx = 0 \/ rd.sampler = 0

\* The checks at the head of generateText, in the order of the source: the
\* exception thrown ("none" if the call goes on), and whether the prompt's
\* characters were fetched and released on the way.
GenValidate(h, rd, prompt, utf_ok) ==
    IF h = 0
    THEN [thrown |-> "IllegalArgumentException", got |-> 0, rel |-> 0]
    ELSE IF prompt.null
    THEN [thrown |-> "IllegalArgumentException", got |-> 0, rel |-> 0]
    ELSE IF InvalidModelState(rd)
    THEN [thrown |-> "IllegalStateException", got |-> 0, rel |-> 0]
    ELSE IF ~utf_ok
    THEN [thrown |-> "OutOfMemoryError", got |-> 0, rel |-> 0]
    ELSE IF PromptLenInvalid(PromptLen(prompt))
    THEN [thrown |-> "IllegalArgumentException", got |-> 1, rel |-> 1]
    ELSE [thrown |-> "none", got |-> 1, rel |-> 0]

\* the mock build answers with a canned sentence and releases the prompt
MockText == <<[tok |-> "mock", n |-> 1]>>

Failed(exc) == [NoOut EXCEPT !.ret = "null", !.thrown = exc]

GenEnter ==
    /\ pc = "idle"
    /\ \E h \in HostHandles, prompt \in PromptInputs, utf_ok \in BOOLEAN,
          mt \in IF variant = "new" THEN MaxTokensInputs ELSE {0} :
       \E rd \in IF h = 0 THEN {NullSession} ELSE StructReads(h) :
         LET v == GenValidate(h, rd, prompt, utf_ok)
             derefs == h # 0 /\ ~prompt.null
         IN  /\ (Stale(h) /\ derefs) => n_stale < MaxStale
             /\ n_stale' = IF Stale(h) /\ derefs THEN n_stale + 1 ELSE n_stale
             /\ faults' = IF derefs THEN Deref(Machine, h).faults ELSE faults
             /\ call' = [given |-> TRUE, h |-> h,
                         rd |-> IF derefs THEN rd ELSE NullSession,
                         prompt_null |-> prompt.null,
                         prompt_units |-> StringLength(prompt),
                         prompt_len |-> PromptLen(prompt), utf_ok |-> utf_ok,
                         maxTokens |-> mt]
             /\ mem' = [NoMem EXCEPT !.chars_get = v.got,
                          !.chars_release =
                             IF variant = "simple" THEN v.got ELSE v.rel]
             /\ loc' = [NoLocals EXCEPT !.max_gen_tokens =
                          IF v.thrown = "none" /\ variant # "simple"
                          THEN EffectiveMaxTokens(mt) ELSE 0]
             /\ out' = IF v.thrown # "none" THEN Failed(v.thrown)
                       ELSE IF variant = "simple"
                       THEN [NoOut EXCEPT !.ret = "text", !.text = MockText]
                       ELSE NoOut
             /\ pc' = IF v.thrown # "none" \/ variant = "simple"
                      THEN "done" ELSE "clear"
    /\ UNCHANGED <<variant, heap, sess, obj, backend_up, n_init, n_free,
                   global_model, issued, last, response, eng, engine, sampled,
                   thr>>

\* mutant: a step of generateText releases the session struct
lifeUnchanged_freesSession ==
    /\ heap' = [a \in Addr |-> IF heap[a] = "live" THEN "freed" ELSE heap[a]]
    /\ UNCHANGED <<variant, sess, obj, backend_up, n_init, n_free,
                   global_model, faults, issued, n_stale, last, thr>>

\* no step of generateText after its entry writes the session, the engine
\* objects' lifetime or the backend
lifeUnchanged == UNCHANGED <<lifeVars, thr>>

\* llama_memory_clear(llama_get_memory(model_ctx->ctx))
GenClear ==
    /\ pc = "clear"
    /\ eng' = [eng EXCEPT !.clear = @ + 1]
    /\ engine' = [engine EXCEPT !.kv = "empty"]
    /\ pc' = "tokenize"
    /\ UNCHANGED <<call, loc, response, mem, sampled, out>>
    /\ lifeUnchanged

\* mutant: a count equal to the context size is let through
TokenCountError_fullWindow(n) ==
    IF n < 0 THEN "RuntimeException"
    ELSE IF n > N_CTX THEN "IllegalArgumentException"
    ELSE "none"

\* if (n_tokens < 0) ... RuntimeException; if (n_tokens >= n_ctx) ...
\* IllegalArgumentException: the exception for a token count, "none" if the
\* count is admitted
TokenCountError(n) ==
    IF n < 0 THEN "RuntimeException"
    ELSE IF n >= N_CTX THEN "IllegalArgumentException"
    ELSE "none"

\* mutant: the token buffer is never freed
FreeTokens_never(m) == m

\* free(tokens) of llama_jni.c; llama_jni_new.c keeps the tokens on the stack
FreeTokens(m) ==
    IF variant = "old" THEN [m EXCEPT !.tokens_free = @ + 1] ELSE m

\* The token buffer (heap in llama_jni.c), llama_tokenize, the release of the
\* prompt's characters and the two tests on the token count.  The arguments
\* of the call are not read again after this step.
GenTokenize ==
    /\ pc = "tokenize"
    /\ \E buf_ok \in IF variant = "old" THEN BOOLEAN ELSE {TRUE},
          n \in TokenizeResults :
         IF ~buf_ok
         THEN /\ mem' = [mem EXCEPT !.chars_release = @ + 1]
              /\ out' = Failed("OutOfMemoryError")
              /\ pc' = "done"
              /\ UNCHANGED <<loc, eng>>
         ELSE LET m1 == [mem EXCEPT !.chars_release = @ + 1,
                           !.tokens_malloc = IF variant = "old" THEN 1 ELSE 0]
              IN  /\ eng' = [eng EXCEPT !.tokenize = @ + 1]
                  /\ loc' = [loc EXCEPT !.n_tokens = n]
                  /\ IF TokenCountError(n) # "none"
                     THEN /\ mem' = FreeTokens(m1)
                          /\ out' = Failed(TokenCountError(n))
                          /\ pc' = "done"
                     ELSE /\ mem' = m1
                          /\ out' = out
                          /\ pc' = "prime"
    /\ call' = NoGenArgs
    /\ UNCHANGED <<response, engine, sampled>>
    /\ lifeUnchanged

\* mutant: the batch holds the first prompt token only
llama_batch_get_one_firstOnly(n_tokens) == IF n_tokens > 0 THEN 1 ELSE 0

\* llama_batch_get_one(tokens, n_tokens): the number of tokens in the batch
llama_batch_get_one(n_tokens) == n_tokens

\* llama_decode(ctx, llama_batch_get_one(tokens, n_tokens))
GenPrime ==
    /\ pc = "prime"
    /\ eng' = [eng EXCEPT !.decode = @ + 1]
    /\ loc' = [loc EXCEPT !.prime_batch = llama_batch_get_one(loc.n_tokens)]
    /\ \E ok \in BOOLEAN :
         IF ok
         THEN /\ engine' = [engine EXCEPT !.kv = "filled"]
              /\ pc' = "alloc"
              /\ UNCHANGED <<mem, out>>
         ELSE /\ mem' = FreeTokens(mem)
              /\ out' = Failed("RuntimeException")
              /\ pc' = "done"
              /\ UNCHANGED engine
    /\ UNCHANGED <<call, response, sampled>>
    /\ lifeUnchanged

\* mutant: the buffer is allocated with the prompt's limit
ResponseCapacity_promptSized == MAX_PROMPT_LENGTH

\* the size of the response buffer: malloc(MAX_RESPONSE_LENGTH)
ResponseCapacity == MAX_RESPONSE_LENGTH

\* char *response = (char*)malloc(MAX_RESPONSE_LENGTH)
GenAlloc ==
    /\ pc = "alloc"
    /\ \E ok \in BOOLEAN :
         IF ok
         THEN /\ mem' = [mem EXCEPT !.response_malloc = @ + 1]
              /\ pc' = "loop"
              /\ out' = out
         ELSE /\ mem' = FreeTokens(mem)
              /\ out' = Failed("OutOfMemoryError")
              /\ pc' = "done"
    /\ UNCHANGED <<call, loc, response, eng, engine, sampled>>
    /\ lifeUnchanged

\* run-length coding of a sequence of tokens
RleAppend(r, t) ==
    IF r # <<>> /\ r[Len(r)].tok = t
    THEN [r EXCEPT ![Len(r)].n = @ + 1]
    ELSE Append(r, [tok |-> t, n |-> 1])

\* mutant: the loop is bounded by the buffer margin alone
LoopGuard_noTokenBound(i, response_pos, max_gen_tokens) ==
    response_pos < MAX_RESPONSE_LENGTH - RESPONSE_MARGIN

\* mutant: the loop is bounded by the token count alone
LoopGuard_noMargin(i, response_pos, max_gen_tokens) == i < max_gen_tokens

\* i < max_gen_tokens && response_pos < MAX_RESPONSE_LENGTH - 256
LoopGuard(i, response_pos, max_gen_tokens) ==
    /\ i < max_gen_tokens
    /\ response_pos < MAX_RESPONSE_LENGTH - RESPONSE_MARGIN

\* mutant: the fit test uses the loop's margin instead of the terminator's byte
Fits_marginBound(response_pos, token_len) ==
    token_len > 0
    /\ response_pos + token_len < MAX_RESPONSE_LENGTH - RESPONSE_MARGIN

\* mutant: only a piece shorter than the piece buffer is copied
Fits_shortPieceOnly(response_pos, token_len) ==
    /\ token_len > 0
    /\ token_len < TOKEN_STR_SIZE
    /\ response_pos + token_len < MAX_RESPONSE_LENGTH - 1

\* token_len > 0 && response_pos + token_len < MAX_RESPONSE_LENGTH - 1
Fits(response_pos, token_len) ==
    token_len > 0 /\ response_pos + token_len < MAX_RESPONSE_LENGTH - 1

\* the loop condition is false: the for loop ends
LoopExit ==
    /\ pc = "loop"
    /\ ~LoopGuard(loc.i, loc.response_pos, loc.max_gen_tokens)
    /\ out' = [out EXCEPT !.stop = IF loc.i < loc.max_gen_tokens
                                   THEN "buffer_margin" ELSE "max_tokens"]
    /\ pc' = "finish"
    /\ UNCHANGED <<call, loc, response, mem, eng, engine, sampled>>
    /\ lifeUnchanged

\* mutant: the end token is treated like any other token
IsEndToken_never(t) == FALSE

\* mutant: the loop compares with a token that is not the end token
IsEndToken_wrongToken(t) == t = "bad"

\* next_token == llama_token_eos(model_ctx->model)
IsEndToken(t) == t = EOS

\* mutant: the token is decoded before it is accepted and appended
BodyNext_decodeFirst(p) ==
    CASE p = "sample" -> "decode"
      [] p = "accept" -> "piece"
      [] p = "piece"  -> "decode"

\* the statement that follows each statement of the loop body, in program
\* order: sample, accept, token_to_piece and append, decode
BodyNext(p) ==
    CASE p = "sample" -> "accept"
      [] p = "accept" -> "piece"
      [] p = "piece"  -> "decode"

\* llama_sampler_sample and the test for the end token
LoopSample ==
    /\ pc = "loop"
    /\ LoopGuard(loc.i, loc.response_pos, loc.max_gen_tokens)
    /\ \E t \in Vocab :
         /\ eng.sample < MaxVaried \/ t = loc.next_token \/ t = EOS
         /\ eng' = [eng EXCEPT !.sample = @ + 1]
         /\ sampled' = RleAppend(sampled, t)
         /\ loc' = [loc EXCEPT !.next_token = t]
         /\ IF IsEndToken(t)
            THEN /\ out' = [out EXCEPT !.stop = "eos"]
                 /\ pc' = "finish"
            ELSE /\ out' = out
                 /\ pc' = BodyNext("sample")
    /\ UNCHANGED <<call, response, mem, engine>>
    /\ lifeUnchanged

\* llama_sampler_accept(sampler, next_token)
LoopAccept ==
    /\ pc = "accept"
    /\ eng' = [eng EXCEPT !.accept = @ + 1]
    /\ engine' = [engine EXCEPT !.sampler = "used"]
    /\ pc' = BodyNext("accept")
    /\ UNCHANGED <<call, loc, response, mem, sampled, out>>
    /\ lifeUnchanged

Max(a, b) == IF a >= b THEN a ELSE b

\* llama_token_to_piece and the copy of the piece into the response
LoopPiece ==
    /\ pc = "piece"
    /\ eng' = [eng EXCEPT !.piece = @ + 1]
    /\ LET token_len == llama_token_to_piece(loc.next_token)
       IN  IF Fits(loc.response_pos, token_len)
           THEN /\ response' = RleAppend(response, loc.next_token)
                /\ loc' = [loc EXCEPT
                             !.token_len = token_len,
                             !.hi_write = Max(@, loc.response_pos + token_len - 1),
                             !.response_pos = @ + token_len]
           ELSE /\ response' = response
                /\ loc' = [loc EXCEPT !.token_len = token_len]
    /\ pc' = BodyNext("piece")
    /\ UNCHANGED <<call, mem, engine, sampled, out>>
    /\ lifeUnchanged

\* if (llama_decode(ctx, next_batch) != 0) break;
LoopDecodeFailed(o) == [o EXCEPT !.stop = "decode_failed"]

\* mutant: a failing decode is tried again
DecodeNext_retry(ok) == IF ok THEN "loop" ELSE "decode"

\* where the loop goes after llama_decode: on to the next iteration, or, on
\* a failure, out of the loop by the break
DecodeNext(ok) == IF ok THEN "loop" ELSE "finish"

\* llama_decode of the single-token batch; a failure breaks out of the loop
LoopDecode ==
    /\ pc = "decode"
    /\ eng' = [eng EXCEPT !.decode = @ + 1]
    /\ \E ok \in BOOLEAN :
         IF ok
         THEN /\ loc' = [loc EXCEPT !.generated_tokens = @ + 1, !.i = @ + 1]
              /\ pc' = DecodeNext(TRUE)
              /\ out' = out
         ELSE /\ out' = LoopDecodeFailed(out)
              /\ pc' = DecodeNext(FALSE)
              /\ loc' = loc
    /\ UNCHANGED <<call, response, mem, engine, sampled>>
    /\ lifeUnchanged

\* response[response_pos] = '\0'; NewStringUTF; free(response); free(tokens)
GenFinish ==
    /\ pc = "finish"
    /\ loc' = [loc EXCEPT !.hi_write = Max(@, loc.response_pos)]
    /\ out' = [out EXCEPT !.ret = "text", !.text = response]
    /\ mem' = FreeTokens([mem EXCEPT !.response_free = @ + 1])
    /\ pc' = "done"
    /\ UNCHANGED <<call, response, eng, engine, sampled>>
    /\ lifeUnchanged

\* the handler returns to the host: its frame is gone, the session stays
GenReturn ==
    /\ pc = "done"
    /\ pc' = "idle"
    /\ call' = NoGenArgs
    /\ loc' = NoLocals
    /\ response' = <<>>
    /\ mem' = NoMem
    /\ eng' = NoEng
    /\ sampled' = <<>>
    /\ out' = NoOut
    /\ UNCHANGED engine
    /\ lifeUnchanged

(***************************************************************************)
(* The generation specification starts from a session loadModel has just   *)
(* returned: one live struct with its model, context and sampler.          *)
(***************************************************************************)
FreshMachine ==
    [heap |-> [a \in Addr |-> "unalloc"], sess |-> [a \in Addr |-> NullSession],
     obj |-> [k \in Kinds |-> [a \in Addr |-> "unalloc"]], backend_up |-> FALSE,
     n_init |-> 0, n_free |-> 0, global_model |-> 0, faults |-> {},
     log |-> <<>>, thrown |-> "none", ret |-> 0]

LoadedOnce == loadModel(FreshMachine, "valid", TRUE, 1, 1, 1, 1)

InitGen ==
    /\ variant \in Variants
    /\ heap = LoadedOnce.heap
    /\ sess = LoadedOnce.sess
    /\ obj = LoadedOnce.obj
    /\ backend_up = LoadedOnce.backend_up
    /\ n_init = LoadedOnce.n_init
    /\ n_free = LoadedOnce.n_free
    /\ global_model = LoadedOnce.global_model
    /\ faults = {}
    /\ issued = {LoadedOnce.ret}
    /\ n_stale = 0
    /\ last = [op |-> "loadModel",
               args |-> [NoArgs EXCEPT !.path = "valid"],
               ret |-> LoadedOnce.ret, thrown |-> "none", log |-> LoadedOnce.log]
    /\ InitGenIdle

NextGen ==
    \/ GenEnter
    \/ GenClear
    \/ GenTokenize
    \/ GenPrime
    \/ GenAlloc
    \/ LoopExit
    \/ LoopSample
    \/ LoopAccept
    \/ LoopPiece
    \/ LoopDecode
    \/ GenFinish
    \/ GenReturn

SpecGen == InitGen /\ [][NextGen]_vars

\* The handler runs on the calling thread and every engine call is a blocking
\* call that returns: once entered, the handler keeps taking steps.  When
\* the host makes its next call is up to the host.
HandlerStep ==
    \/ GenClear
    \/ GenTokenize
    \/ GenPrime
    \/ GenAlloc
    \/ LoopExit
    \/ LoopSample
    \/ LoopAccept
    \/ LoopPiece
    \/ LoopDecode
    \/ GenFinish
    \/ GenReturn

SpecGenFair == SpecGen /\ WF_vars(HandlerStep)

(***************************************************************************)
(* The life of one session: the host makes generateText calls on the       *)
(* session loadModel returned and, between two of them, may call           *)
(* unloadModel; nothing stops it from calling generateText with the handle *)
(* after that.  (Unloading a handle twice is explored by SpecLife.)        *)
(***************************************************************************)
Release ==
    /\ pc = "idle"
    /\ UnloadModel
    /\ n_stale' = n_stale

NextSession ==
    \/ GenEnter
    \/ GenClear
    \/ GenTokenize
    \/ GenPrime
    \/ GenAlloc
    \/ LoopExit
    \/ LoopSample
    \/ LoopAccept
    \/ LoopPiece
    \/ LoopDecode
    \/ GenFinish
    \/ GenReturn
    \/ Release

SpecSession == InitGen /\ [][NextSession]_vars

(***************************************************************************)
(* generateText of llama_jni.c, translated on its own as a function: from  *)
(* what a call has observably done so far (its position, the engine calls  *)
(* made, its counters, the text, its result) and the answer the engine or  *)
(* the allocator gives to the next statement, the call's next observation. *)
(* The token buffer's malloc is taken to succeed.                          *)
(***************************************************************************)
OldFresh ==
    [pc |-> "idle",
     calls |-> [clear |-> 0, tokenize |-> 0, decode |-> 0, sample |-> 0,
                accept |-> 0, piece |-> 0],
     n_tokens |-> 0, batch |-> -1, i |-> 0, response_pos |-> 0,
     generated_tokens |-> 0, next_token |-> "none", response |-> <<>>,
     ret |-> "pending", text |-> <<>>, thrown |-> "none"]

\* ThrowNew(...); return NULL
OldThrow(o, exc) ==
    [o EXCEPT !.pc = "done", !.ret = "null", !.text = <<>>, !.thrown = exc]

\* the tests before the engine is touched
OldEntry(a) ==
    IF a.h = 0 THEN OldThrow(OldFresh, "IllegalArgumentException")
    ELSE IF a.prompt_null THEN OldThrow(OldFresh, "IllegalArgumentException")
    ELSE IF a.rd.model = 0 \/ a.rd.ctx = 0 \/ a.rd.sampler = 0
    THEN OldThrow(OldFresh, "IllegalStateException")
    ELSE IF ~a.utf_ok THEN OldThrow(OldFresh, "OutOfMemoryError")
    ELSE IF a.prompt_len = 0 \/ a.prompt_len > 4096
    THEN OldThrow(OldFresh, "IllegalArgumentException")
    ELSE [OldFresh EXCEPT !.pc = "clear"]

OldStep(o, in) ==
    CASE o.pc = "idle" -> OldEntry(in.args)
      [] o.pc = "clear" ->
           [o EXCEPT !.pc = "tokenize", !.calls.clear = @ + 1]
      [] o.pc = "tokenize" ->
           LET o1 == [o EXCEPT !.calls.tokenize = @ + 1, !.n_tokens = in.n]
           IN  IF in.n < 0 THEN OldThrow(o1, "RuntimeException")
               ELSE IF in.n >= 2048 THEN OldThrow(o1, "IllegalArgumentException")
               ELSE [o1 EXCEPT !.pc = "prime"]
      [] o.pc = "prime" ->
           LET o1 == [o EXCEPT !.calls.decode = @ + 1, !.batch = o.n_tokens]
           IN  IF in.ok THEN [o1 EXCEPT !.pc = "alloc"]
               ELSE OldThrow(o1, "RuntimeException")
      [] o.pc = "alloc" ->
           IF in.ok THEN [o EXCEPT !.pc = "loop"]
           ELSE OldThrow(o, "OutOfMemoryError")
      [] o.pc = "loop" ->
           IF o.i < 512 /\ o.response_pos < 8192 - 256
           THEN [o EXCEPT !.calls.sample = @ + 1, !.next_token = in.tok,
                          !.pc = IF in.tok = EOS THEN "finish" ELSE "accept"]
           ELSE [o EXCEPT !.pc = "finish"]
      [] o.pc = "accept" ->
           [o EXCEPT !.calls.accept = @ + 1, !.pc = "piece"]
      [] o.pc = "piece" ->
           LET token_len == llama_token_to_piece(o.next_token)
               o1 == [o EXCEPT !.calls.piece = @ + 1, !.pc = "decode"]
           IN  IF token_len > 0 /\ o.response_pos + token_len < 8192 - 1
               THEN [o1 EXCEPT !.response = RleAppend(@, o.next_token),
                               !.response_pos = @ + token_len]
               ELSE o1
      [] o.pc = "decode" ->
           LET o1 == [o EXCEPT !.calls.decode = @ + 1]
           IN  IF in.ok
               THEN [o1 EXCEPT !.generated_tokens = @ + 1, !.i = @ + 1,
                               !.pc = "loop"]
               ELSE [o1 EXCEPT !.pc = "finish"]
      [] o.pc = "finish" ->
           [o EXCEPT !.ret = "text", !.text = o.response, !.pc = "done"]
      [] o.pc = "done" -> OldFresh

(***************************************************************************)
(* The handle specification: a host that loads sessions, unloads a live or *)
(* the zero handle, and calls generateText with the zero handle.           *)
(***************************************************************************)
\* loadModel, called while no generateText frame is open
Create ==
    /\ pc = "idle"
    /\ LoadModel

\* generateText(0, prompt, maxTokens): the call leaves at the handle test
GenerateNoSession ==
    /\ GenEnter
    /\ call'.h = 0

NextHandles ==
    \/ Create
    \/ Release
    \/ GenerateNoSession
    \/ GenReturn

SpecHandles == InitLife /\ [][NextHandles]_vars

(***************************************************************************)
(* The concurrent specification: two host threads call generateText on the *)
(* one loaded session of an engine build, and unloadModel may be called at *)
(* any time.  A call is followed through its engine calls only: what it    *)
(* does to the context memory and the sampler the session's calls share,   *)
(* and whether the objects it uses are still live.  The context memory     *)
(* holds nothing ("empty") or the prompt a thread's priming decode put     *)
(* there (the thread's name).                                              *)
(***************************************************************************)
\* mutant: a call is admitted only while no other call is in progress
Admitted_exclusive(t, h) ==
    /\ h # 0
    /\ heap[h] = "live"
    /\ ~InvalidModelState(sess[h])
    /\ \A u \in Threads \ {t} : thr[u].pc = "idle"

\* the tests generateText makes before it touches the engine: the handle is
\* not zero and the struct's three pointers are set; no test looks at other
\* calls and no lock is taken
Admitted(t, h) ==
    /\ h # 0
    /\ heap[h] = "live"
    /\ ~InvalidModelState(sess[h])

\* thread t has taken a step: every other call in progress is no longer alone
Step(t, p) ==
    [u \in Threads |->
       IF u = t THEN [thr[t] EXCEPT !.pc = p]
       ELSE IF thr[u].pc # "idle" THEN [thr[u] EXCEPT !.alone = FALSE]
       ELSE thr[u]]

\* an engine call on the session's objects; on freed objects it is a fault
UseSession(t) ==
    faults' = IF heap[thr[t].h] = "live" THEN faults
              ELSE faults \cup {"use_after_free"}

\* what a thread's step leaves alone
ThreadFrame ==
    UNCHANGED <<variant, heap, sess, obj, backend_up, n_init, n_free,
                global_model, issued, n_stale, last,
                pc, call, loc, response, mem, eng, sampled, out>>

\* the entry of generateText up to the sanitized maxTokens
ThreadEnter(t) ==
    /\ thr[t].pc = "idle"
    /\ \E h \in issued :
         /\ Admitted(t, h)
         /\ thr' = [Step(t, "clear") EXCEPT ![t].h = h,
                      ![t].alone = \A u \in Threads \ {t} : thr[u].pc = "idle"]
    /\ UNCHANGED <<engine, faults>>
    /\ ThreadFrame

\* llama_memory_clear
ThreadClear(t) ==
    /\ thr[t].pc = "clear"
    /\ engine' = [engine EXCEPT !.kv = "empty"]
    /\ UseSession(t)
    /\ thr' = Step(t, "tokenize")
    /\ ThreadFrame

\* llama_tokenize and the tests on the token count
ThreadTokenize(t) ==
    /\ thr[t].pc = "tokenize"
    /\ \E n \in TokenizeResults :
         thr' = Step(t, IF TokenCountError(n) = "none" THEN "prime" ELSE "return")
    /\ UseSession(t)
    /\ UNCHANGED engine
    /\ ThreadFrame

\* the priming decode puts the thread's prompt into the context memory
ThreadPrime(t) ==
    /\ thr[t].pc = "prime"
    /\ \E ok \in BOOLEAN :
         IF ok
         THEN /\ engine' = [engine EXCEPT !.kv = t]
              /\ thr' = Step(t, "loop")
         ELSE /\ engine' = engine
              /\ thr' = Step(t, "return")
    /\ UseSession(t)
    /\ ThreadFrame

\* the loop condition is false
ThreadLoopExit(t) ==
    /\ thr[t].pc = "loop"
    /\ thr' = Step(t, "return")
    /\ UNCHANGED <<engine, faults>>
    /\ ThreadFrame

\* llama_sampler_sample, from the context memory as it is, and the test for
\* the end token
ThreadSample(t) ==
    /\ thr[t].pc = "loop"
    /\ \E end \in BOOLEAN : thr' = Step(t, IF end THEN "return" ELSE "accept")
    /\ UseSession(t)
    /\ UNCHANGED engine
    /\ ThreadFrame

\* llama_sampler_accept and the copy of the piece
ThreadAccept(t) ==
    /\ thr[t].pc = "accept"
    /\ engine' = [engine EXCEPT !.sampler = "used"]
    /\ UseSession(t)
    /\ thr' = Step(t, "decode")
    /\ ThreadFrame

\* llama_decode of the single token: it is added to the context memory
ThreadDecode(t) ==
    /\ thr[t].pc = "decode"
    /\ \E ok \in BOOLEAN : thr' = Step(t, DecodeNext(ok))
    /\ UseSession(t)
    /\ UNCHANGED engine
    /\ ThreadFrame

\* the terminator, NewStringUTF, free(response), return
ThreadReturn(t) ==
    /\ thr[t].pc \in {"return", "finish"}
    /\ thr' = [Step(t, "idle") EXCEPT ![t] = IdleThread]
    /\ UNCHANGED <<engine, faults>>
    /\ ThreadFrame

\* unloadModel, called by any thread at any time
ConcurrentUnload ==
    /\ UnloadModel
    /\ n_stale' = n_stale

InitConcurrent ==
    /\ InitGen
    /\ variant # "simple"

ThreadStep(t) ==
    \/ ThreadEnter(t)
    \/ ThreadClear(t)
    \/ ThreadTokenize(t)
    \/ ThreadPrime(t)
    \/ ThreadLoopExit(t)
    \/ ThreadSample(t)
    \/ ThreadAccept(t)
    \/ ThreadDecode(t)
    \/ ThreadReturn(t)

NextConcurrent ==
    \/ \E t \in Threads : ThreadEnter(t)
    \/ \E t \in Threads : ThreadClear(t)
    \/ \E t \in Threads : ThreadTokenize(t)
    \/ \E t \in Threads : ThreadPrime(t)
    \/ \E t \in Threads : ThreadLoopExit(t)
    \/ \E t \in Threads : ThreadSample(t)
    \/ \E t \in Threads : ThreadAccept(t)
    \/ \E t \in Threads : ThreadDecode(t)
    \/ \E t \in Threads : ThreadReturn(t)
    \/ ConcurrentUnload

SpecConcurrent == InitConcurrent /\ [][NextConcurrent]_vars

(***************************************************************************)
(* Properties of the lifecycle (checked under SpecLife).                   *)
(***************************************************************************)
Count(log, ev) == Cardinality({i \in DOMAIN log : log[i] = ev})
LiveSessions == {a \in Addr : heap[a] = "live"}
FullSession(a) == sess[a].model # 0 /\ sess[a].ctx # 0 /\ sess[a].sampler # 0

\* C1: a loadModel call that throws returns handle 0, has freed every engine
\* object it created (model, context, sampler), has matched its backend init
\* by a backend free, holds no session struct, and throws only after these
\* releases; a call that returns a non-zero handle threw nothing and its
\* struct is live.
C1_FailedLoadReleasesAll ==
    /\ (last.op = "loadModel" /\ last.thrown # "none") =>
          /\ last.ret = 0
          /\ \A k \in Kinds :
                Count(last.log, "new_" \o k) = Count(last.log, "free_" \o k)
          /\ Count(last.log, "llama_backend_init")
               = Count(last.log, "llama_backend_free")
          /\ Count(last.log, "malloc_struct") = 0
          /\ last.log[Len(last.log)] = "throw_" \o last.thrown
    /\ (last.op = "loadModel" /\ last.ret # 0) =>
          last.thrown = "none" /\ heap[last.ret] = "live"

\* C1 witness: the struct allocation failed after sampler, context and model
\* had been built, and all three were released
C1_Witness ==
    /\ last.op = "loadModel"
    /\ last.thrown = "OutOfMemoryError"
    /\ Count(last.log, "new_sampler") = 1
    /\ Count(last.log, "free_sampler") = 1
    /\ Count(last.log, "free_model") = 1

\* C5 (as claimed): after unloadModel on a handle loadModel returned, the
\* struct and its three engine objects are released, and no call (a second
\* unloadModel with the same handle included) frees anything twice or reads
\* freed memory.
C5_UnloadTwiceIsSafe ==
    (last.op = "unloadModel" /\ last.args.h # 0) =>
        /\ heap[last.args.h] = "freed"
        /\ faults = {}

\* C6: in the engine builds, as long as unloadModel was only called on live
\* handles, backend inits minus backend frees equals the number of live
\* sessions; a loadModel that fails on a null path or on the string fetch
\* calls neither llama_backend_init nor llama_backend_free.
C6_BackendPaired ==
    variant # "simple" =>
        /\ n_stale = 0 => n_init - n_free = Cardinality(LiveSessions)
        /\ (last.op = "loadModel"
              /\ (last.args.path = "null" \/ ~last.args.utf_ok)) =>
               /\ last.thrown # "none"
               /\ Count(last.log, "llama_backend_init") = 0
               /\ Count(last.log, "llama_backend_free") = 0

\* C6 witness: one load failed after the backend init and another succeeded
C6_Witness ==
    /\ variant = "new"
    /\ n_stale = 0
    /\ n_init = 2
    /\ n_free = 1
    /\ Cardinality(LiveSessions) = 1
    /\ last.op = "loadModel"
    /\ last.thrown = "RuntimeException"

\* C7: in the engine builds every live session struct holds a model, a
\* context and a sampler, none NULL, and (while no stale handle was used)
\* all three live; the handle of a successful loadModel is such a struct.
C7_SessionComplete ==
    variant # "simple" =>
        /\ \A a \in LiveSessions :
              /\ FullSession(a)
              /\ n_stale = 0 =>
                    /\ obj["model"][sess[a].model] = "live"
                    /\ obj["ctx"][sess[a].ctx] = "live"
                    /\ obj["sampler"][sess[a].sampler] = "live"
        /\ (last.op = "loadModel" /\ last.ret # 0) => last.ret \in LiveSessions

\* C7 witness: a successful load just returned a live, complete session
C7_Witness ==
    /\ variant = "new"
    /\ last.op = "loadModel"
    /\ last.ret # 0
    /\ last.ret \in LiveSessions
    /\ FullSession(last.ret)

(***************************************************************************)
(* Properties of generateText (checked under SpecGen).                     *)
(***************************************************************************)
Min(a, b) == IF a <= b THEN a ELSE b

\* r followed by m copies of the piece of token t
RleAppendN(r, t, m) ==
    IF m = 0 THEN r
    ELSE IF r # <<>> /\ r[Len(r)].tok = t
    THEN [r EXCEPT ![Len(r)].n = @ + m]
    ELSE Append(r, [tok |-> t, n |-> m])

\* The text made of the pieces of the first n tokens of the run-length coded
\* token sequence runs, where a piece is kept when its length is positive
\* and it leaves room for the terminator in a buffer of MAX_RESPONSE_LENGTH
\* bytes, and is dropped otherwise.  Of c equal pieces of length L written
\* from position pos, the first (MAX_RESPONSE_LENGTH - 2 - pos) \div L fit.
RECURSIVE TextOfRuns(_, _, _, _, _)
TextOfRuns(runs, k, n, text, pos) ==
    IF k > Len(runs) \/ n = 0 THEN text
    ELSE LET c == Min(runs[k].n, n)
             L == llama_token_to_piece(runs[k].tok)
             m == IF L <= 0 THEN 0
                  ELSE Min(c, Max(0, (MAX_RESPONSE_LENGTH - 2 - pos) \div L))
         IN  TextOfRuns(runs, k + 1, n - c,
                        RleAppendN(text, runs[k].tok, m), pos + m * L)

\* the text of the pieces of loop iterations 0 .. n-1 of the current call
PiecesOfIterations(n) == TextOfRuns(sampled, 1, n, <<>>, 0)

\* C2: in the engine builds no write into the response buffer (the copy of a
\* piece, the terminator) is at or beyond the buffer's capacity, and the
\* write position stays below it.
C2_WritesInsideBuffer ==
    variant # "simple" =>
        /\ loc.hi_write < ResponseCapacity
        /\ loc.response_pos < ResponseCapacity
        /\ loc.response_pos >= 0

\* C2 witness: a call ended by the buffer margin, its terminator written
\* beyond the margin's start
C2_Witness ==
    /\ pc = "done"
    /\ out.stop = "buffer_margin"
    /\ loc.response_pos > MAX_RESPONSE_LENGTH - RESPONSE_MARGIN
    /\ loc.hi_write = loc.response_pos

\* C3 (as claimed): when the per-token decode fails in iteration k, the call
\* returns text without throwing, and the text is the pieces of iterations
\* 0 .. k-1.
C3_DecodeFailureReturnsEarlierPieces ==
    (pc = "done" /\ out.stop = "decode_failed") =>
        /\ out.thrown = "none"
        /\ out.ret = "text"
        /\ out.text = PiecesOfIterations(loc.i)

\* C3 (amended): when the per-token decode fails in iteration k, the call
\* returns text without throwing, and the text is the pieces of iterations
\* 0 .. k, the piece of the token sampled in iteration k included: the piece
\* is copied before the token is decoded.
C3_DecodeFailureReturnsPiecesSoFar ==
    (pc = "done" /\ out.stop = "decode_failed") =>
        /\ out.thrown = "none"
        /\ out.ret = "text"
        /\ eng.sample = loc.i + 1
        /\ out.text = PiecesOfIterations(loc.i + 1)

\* C3 witness: the decode failed in iteration 2, whose piece is in the text
C3_Witness ==
    /\ pc = "done"
    /\ out.stop = "decode_failed"
    /\ loc.i = 2
    /\ out.text = <<[tok |-> "mid", n |-> 1], [tok |-> "full", n |-> 2]>>

\* C4: once the end token is sampled the loop is over: the token is never
\* accepted, detokenized or decoded (the handler goes straight to its end),
\* and the text is the pieces of the iterations before it.
C4_EndTokenStopsLoop ==
    variant # "simple" =>
        /\ loc.next_token = EOS => pc \in {"finish", "done"} /\ out.stop = "eos"
        /\ out.stop = "eos" =>
              /\ loc.next_token = EOS
              /\ eng.sample = loc.i + 1
              /\ eng.accept = loc.i
              /\ eng.piece = loc.i
              /\ eng.decode = loc.i + 1
              /\ response = PiecesOfIterations(loc.i)
              /\ pc = "done" => out.text = response /\ out.thrown = "none"

\* C4 witness: the end token came in iteration 2, after two kept pieces
C4_Witness ==
    /\ pc = "done"
    /\ out.stop = "eos"
    /\ loc.i = 2
    /\ out.text = <<[tok |-> "full", n |-> 2]>>

\* the bounds of the loop: it runs at most max_gen_tokens (at most
\* DEFAULT_MAX_TOKENS) iterations; an iteration's body runs only if the loop
\* condition held at its head and the sampled token is not the end token;
\* the loop ends for one of four reasons, each with its condition
LoopBounded ==
    variant # "simple" =>
        /\ loc.max_gen_tokens <= DEFAULT_MAX_TOKENS
        /\ loc.i <= loc.max_gen_tokens
        /\ eng.sample <= loc.max_gen_tokens
        /\ pc \in {"accept", "piece"} =>
              /\ loc.i < loc.max_gen_tokens
              /\ loc.response_pos < MAX_RESPONSE_LENGTH - RESPONSE_MARGIN
              /\ loc.next_token # EOS
        /\ pc = "decode" => loc.i < loc.max_gen_tokens /\ loc.next_token # EOS
        /\ pc \in {"finish", "done"} /\ out.ret # "null" =>
              out.stop \in {"max_tokens", "buffer_margin", "eos", "decode_failed"}
        /\ out.stop = "max_tokens" => loc.i = loc.max_gen_tokens
        /\ out.stop = "buffer_margin" =>
              loc.response_pos >= MAX_RESPONSE_LENGTH - RESPONSE_MARGIN
        /\ out.stop = "eos" => loc.next_token = EOS
        /\ (pc = "loop" /\ loc.i > 0) =>
              eng.sample = loc.i /\ eng.decode = loc.i + 1

\* C8: the generation loop always terminates (a handler that has reached the
\* loop reaches its return), within the bounds of LoopBounded: at most
\* max_gen_tokens iterations, none begun once the write position is within
\* RESPONSE_MARGIN of the buffer's end, none continued past the end token.
C8_LoopTerminates == []LoopBounded /\ ((pc = "loop") ~> (pc = "done"))

\* C8 witness: a call that ran all DEFAULT_MAX_TOKENS iterations
C8_Witness ==
    /\ pc = "done"
    /\ out.stop = "max_tokens"
    /\ loc.i = DEFAULT_MAX_TOKENS
    /\ eng.sample = DEFAULT_MAX_TOKENS

\* C9: in llama_jni_new.c the effective bound is the requested maxTokens when
\* it lies in 1 .. 512 and 512 otherwise, and a call whose handle and prompt
\* are valid goes on to the engine whatever maxTokens is.
C9_MaxTokensClamped ==
    variant = "new" =>
        /\ pc \in {"clear", "tokenize"} =>
              loc.max_gen_tokens =
                 IF call.maxTokens >= 1 /\ call.maxTokens <= 512
                 THEN call.maxTokens ELSE 512
        /\ (pc = "done" /\ eng.clear = 0 /\ out.thrown # "none") =>
              \/ call.h = 0
              \/ call.prompt_null
              \/ ~call.utf_ok
              \/ call.prompt_len = 0
              \/ call.prompt_len > MAX_PROMPT_LENGTH

\* C9 witness: a request above the limit was replaced by the default
C9_Witness ==
    /\ variant = "new"
    /\ pc = "clear"
    /\ call.maxTokens = DEFAULT_MAX_TOKENS + 1
    /\ loc.max_gen_tokens = DEFAULT_MAX_TOKENS

\* C10: in every build, a call on a loaded session whose prompt (fetched from
\* the host) has length 0 ends with IllegalArgumentException, returns no
\* text, and makes no engine call.
C10_EmptyPromptRejected ==
    (pc # "idle" /\ call.h # 0 /\ ~call.prompt_null /\ call.utf_ok
       /\ call.prompt_len = 0) =>
        /\ pc = "done"
        /\ out.thrown = "IllegalArgumentException"
        /\ out.ret = "null"
        /\ eng = NoEng
        /\ mem.chars_release = mem.chars_get

\* C10 witness: such a call was made and rejected
C10_Witness ==
    /\ pc = "done"
    /\ call.h # 0
    /\ ~call.prompt_null
    /\ call.utf_ok
    /\ call.prompt_len = 0
    /\ out.thrown = "IllegalArgumentException"

\* C11: a call on a loaded session whose prompt was fetched from the host is
\* rejected with IllegalArgumentException, before any engine call, when the
\* prompt is longer than MAX_PROMPT_LENGTH, measured as the code measures it
\* (bytes of the modified UTF-8 form) and a fortiori when it has more than
\* MAX_PROMPT_LENGTH UTF-16 code units; a prompt whose measured length is
\* exactly MAX_PROMPT_LENGTH passes the length check and the call goes on.
C11_LongPromptRejected ==
    (pc # "idle" /\ call.h # 0 /\ ~call.prompt_null /\ call.utf_ok
       /\ heap[call.h] = "live") =>
        /\ call.prompt_units <= call.prompt_len
        /\ (call.prompt_len > MAX_PROMPT_LENGTH
              \/ call.prompt_units > MAX_PROMPT_LENGTH) =>
              /\ pc = "done"
              /\ out.thrown = "IllegalArgumentException"
              /\ out.ret = "null"
              /\ eng = NoEng
        /\ call.prompt_len = MAX_PROMPT_LENGTH =>
              /\ out.thrown = "none"
              /\ variant # "simple" => pc \in {"clear", "tokenize"}

\* C11 witness: a prompt of exactly MAX_PROMPT_LENGTH bytes, one of its
\* characters taking two, was admitted
C11_Witness ==
    /\ pc = "clear"
    /\ call.h # 0
    /\ call.prompt_len = MAX_PROMPT_LENGTH
    /\ call.prompt_units = MAX_PROMPT_LENGTH - 1

\* the struct a call read lacks something the build's state test looks at
Missing(rd) ==
    IF variant = "simple"
    THEN rd.model_id # MOCK_MODEL_ID \/ rd.is_loaded = 0
    ELSE rd.model = 0 \/ rd.ctx = 0 \/ rd.sampler = 0

\* C12 (as claimed): a call whose session is not fully initialised (a zero
\* handle, or a struct in which model, context or sampler is missing) fails
\* with IllegalStateException before any engine call.
C12_NotInitialisedIsStateError ==
    (call.given /\ (call.h = 0 \/ (~call.prompt_null /\ Missing(call.rd)))) =>
        /\ pc = "done"
        /\ out.thrown = "IllegalStateException"
        /\ eng = NoEng

\* C12 (amended): a call with a non-zero handle and a prompt fails with
\* IllegalStateException, before any engine call and before the prompt is
\* fetched, when model, context or sampler reads as NULL in the struct; a
\* call with a zero handle, or with a non-zero handle and no prompt, fails
\* with IllegalArgumentException instead, without reading any struct.
C12_MissingFieldIsStateError ==
    /\ (call.given /\ call.h # 0 /\ ~call.prompt_null /\ Missing(call.rd)) =>
          /\ pc = "done"
          /\ out.thrown = "IllegalStateException"
          /\ out.ret = "null"
          /\ eng = NoEng
          /\ mem = NoMem
    /\ (call.given /\ (call.h = 0 \/ call.prompt_null)) =>
          /\ pc = "done"
          /\ out.thrown = "IllegalArgumentException"
          /\ out.ret = "null"
          /\ eng = NoEng
          /\ mem = NoMem
          /\ call.rd = NullSession
    /\ out.thrown = "IllegalStateException" =>
          call.given /\ call.h # 0 /\ Missing(call.rd)

\* C12 witness: in an engine build the struct read had a model and a sampler
\* but no context, and the call was rejected
C12_Witness ==
    /\ variant = "new"
    /\ pc = "done"
    /\ call.given
    /\ call.rd.model # 0
    /\ call.rd.ctx = 0
    /\ call.rd.sampler # 0
    /\ out.thrown = "IllegalStateException"

\* C13: in the engine builds a negative count from llama_tokenize ends the
\* call with RuntimeException (tokenization error) and a count of at least
\* the context size with IllegalArgumentException (prompt too long), in both
\* cases with no text, no decode call and no sample call; every count from 0
\* to N_CTX - 1 is admitted and the call goes on to the priming decode.
C13_TokenCountErrors ==
    (variant # "simple" /\ eng.tokenize = 1) =>
        /\ loc.n_tokens < 0 =>
              /\ pc = "done"
              /\ out.thrown = "RuntimeException"
              /\ out.ret = "null"
              /\ eng.decode = 0 /\ eng.sample = 0
        /\ loc.n_tokens >= N_CTX =>
              /\ pc = "done"
              /\ out.thrown = "IllegalArgumentException"
              /\ out.ret = "null"
              /\ eng.decode = 0 /\ eng.sample = 0
        /\ (loc.n_tokens >= 0 /\ loc.n_tokens < N_CTX) =>
              pc = "prime" \/ eng.decode >= 1
        /\ mem.chars_release = 1

\* C13 witness: the tokenizer filled the whole window and the call was
\* rejected as too long
C13_Witness ==
    /\ variant = "old"
    /\ pc = "done"
    /\ loc.n_tokens = N_CTX
    /\ out.thrown = "IllegalArgumentException"
    /\ mem.tokens_free = 1

\* the priming decode was made and the engine rejected it
PrimeRejected == eng.decode >= 1 /\ engine.kv = "empty"

\* C14: in the engine builds, before the response buffer is allocated and
\* the first token sampled, exactly one decode call has been made and its
\* batch held all n_tokens prompt tokens; if the engine rejects that batch
\* the call ends with RuntimeException, no text, and no sample call.
C14_PrimeIsOneWholeBatch ==
    variant # "simple" =>
        /\ (pc = "alloc" \/ (pc = "loop" /\ eng.sample = 0)) =>
              /\ eng.decode = 1
              /\ eng.sample = 0
        /\ eng.sample > 0 => eng.decode >= 1 /\ engine.kv = "filled"
        /\ eng.decode >= 1 => loc.prime_batch = loc.n_tokens
        /\ PrimeRejected =>
              /\ pc = "done"
              /\ out.thrown = "RuntimeException"
              /\ out.ret = "null"
              /\ out.text = <<>>
              /\ eng.decode = 1
              /\ eng.sample = 0
              /\ mem.response_malloc = 0

\* C14 witness: the engine rejected a batch of N_CTX - 1 prompt tokens
C14_Witness ==
    /\ variant = "new"
    /\ pc = "done"
    /\ PrimeRejected
    /\ loc.prime_batch = N_CTX - 1
    /\ out.thrown = "RuntimeException"

\* C15 (as claimed): when a call decodes its prompt, nothing of an earlier
\* call on the session is left in the state that influences sampling: the
\* context's key-value memory is empty and the sampler chain is as it was
\* when loadModel built it.
C15_SecondCallSeesNoState ==
    (variant # "simple" /\ pc = "prime") =>
        /\ engine.kv = "empty"
        /\ engine.sampler = "fresh"

\* the position of the first occurrence of ev in log (0 if there is none)
IndexOf(log, ev) ==
    IF \E i \in DOMAIN log : log[i] = ev
    THEN CHOOSE i \in DOMAIN log : log[i] = ev /\ \A j \in 1..(i - 1) : log[j] # ev
    ELSE 0

\* C16: in the engine builds unloadModel on a live session makes exactly
\* these calls in this order: llama_sampler_free, llama_free (context),
\* llama_free_model, free of the session struct, llama_backend_free; the
\* backend is shut down last, after the three objects and the struct are
\* released, and nothing is freed twice.
C16_UnloadOrder ==
    (variant # "simple" /\ n_stale = 0 /\ last.op = "unloadModel"
       /\ last.args.h # 0) =>
        /\ last.log = <<"free_sampler", "free_ctx", "free_model", "free_struct",
                        "llama_backend_free">>
        /\ IndexOf(last.log, "free_sampler") < IndexOf(last.log, "free_ctx")
        /\ IndexOf(last.log, "free_ctx") < IndexOf(last.log, "free_model")
        /\ IndexOf(last.log, "llama_backend_free") = Len(last.log)
        /\ heap[last.args.h] = "freed"
        /\ obj["sampler"][sess[last.args.h].sampler] = "freed"
        /\ obj["ctx"][sess[last.args.h].ctx] = "freed"
        /\ obj["model"][sess[last.args.h].model] = "freed"
        /\ ~backend_up
        /\ faults = {}

\* C16 witness: a live session of an engine build was unloaded
C16_Witness ==
    /\ variant = "old"
    /\ n_stale = 0
    /\ last.op = "unloadModel"
    /\ last.args.h # 0
    /\ Len(last.log) = 5
    /\ last.log[5] = "llama_backend_free"

\* C17: unloadModel of an engine build, handed a live struct in which any
\* subset of model, context and sampler is NULL and the rest are live
\* objects, frees each object that is present exactly once, makes no free
\* call for one that is absent, frees nothing that was already freed, and
\* then frees the struct and the backend once each.
C17_PartialUnloadFreesPresent ==
    (n_stale = 0 /\ last.op = "unloadModel" /\ last.args.h # 0) =>
        /\ \A k \in Kinds :
              /\ Count(last.log, "free_" \o k)
                   = IF sess[last.args.h][k] # 0 THEN 1 ELSE 0
              /\ \A x \in Addr :
                    obj[k][x] = IF x = sess[last.args.h][k] THEN "freed"
                                ELSE "unalloc"
        /\ Count(last.log, "free_struct") = 1
        /\ Count(last.log, "llama_backend_free") = 1
        /\ heap[last.args.h] = "freed"
        /\ faults = {}

\* C17 witness: a struct with a model and a sampler but no context was
\* unloaded
C17_Witness ==
    /\ n_stale = 0
    /\ last.op = "unloadModel"
    /\ last.args.h # 0
    /\ sess[last.args.h].ctx = 0
    /\ sess[last.args.h].model # 0
    /\ sess[last.args.h].sampler # 0
    /\ last.log = <<"free_sampler", "free_model", "free_struct", "llama_backend_free">>

\* the last call was loadModel with a path string the host did pass and
\* the bridge did fetch, naming no file the engine can read
LoadedBadPath(paths) ==
    /\ last.op = "loadModel"
    /\ last.args.path \in paths
    /\ last.args.utf_ok

\* C18 (as claimed): loadModel with an unreadable path throws
\* RuntimeException, returns 0 and matches its backend init by a backend
\* free, in every build.
C18_UnreadablePathFails ==
    LoadedBadPath({"unreadable"}) =>
        /\ last.thrown = "RuntimeException"
        /\ last.ret = 0
        /\ Count(last.log, "llama_backend_init")
             = Count(last.log, "llama_backend_free")

\* C18 (amended): in the engine builds loadModel with an unreadable path
\* throws RuntimeException, returns 0, creates no object and no struct, and
\* makes one backend init and one backend free, which leaves the backend
\* shut down (as before the call if no session was live).  The mock build
\* only reports the missing file: it makes no backend call and, unless the
\* struct allocation fails, returns a live session and throws nothing.
C18_UnreadablePathFailsInEngineBuilds ==
    LoadedBadPath({"unreadable"}) =>
        IF variant = "simple"
        THEN /\ Count(last.log, "llama_backend_init") = 0
             /\ Count(last.log, "llama_backend_free") = 0
             /\ last.thrown \in {"none", "OutOfMemoryError"}
             /\ last.thrown = "none" => last.ret # 0 /\ heap[last.ret] = "live"
        ELSE /\ last.thrown = "RuntimeException"
             /\ last.ret = 0
             /\ last.log = <<"llama_backend_init", "load_from_file", "release_path",
                             "llama_backend_free", "throw_RuntimeException">>
             /\ ~backend_up

\* C18 witness: an engine build failed to load an unreadable path as its
\* first call
C18_Witness ==
    /\ variant = "new"
    /\ LoadedBadPath({"unreadable"})
    /\ last.thrown = "RuntimeException"
    /\ n_init = 1
    /\ n_free = 1

Ready(a) ==
    /\ heap[a] = "live"
    /\ IF variant = "simple"
       THEN sess[a].model_id = MOCK_MODEL_ID /\ sess[a].is_loaded = 1
       ELSE /\ FullSession(a)
            /\ obj["model"][sess[a].model] = "live"
            /\ obj["ctx"][sess[a].ctx] = "live"
            /\ obj["sampler"][sess[a].sampler] = "live"

\* a step of a generateText call, from its entry to its return
GenerateStep == pc # "idle" \/ pc' # "idle"

\* C20: until unloadModel is called the session stays Ready through every
\* generateText call, whatever its outcome (text, early stop, exception);
\* no step of generateText changes the struct, the session's fields, the
\* lifetime of an engine object or the backend, so when the call has
\* returned the session is as it was and the next call is accepted; the one
\* step that ends a live struct's life is unloadModel on its handle, made
\* between two calls.
C20_GenerateKeepsSession ==
    /\ [](last.op = "loadModel" => \A a \in issued : Ready(a) /\ faults = {})
    /\ [][GenerateStep =>
            UNCHANGED <<heap, sess, obj, backend_up, n_init, n_free,
                        global_model, issued>>]_vars
    /\ [][\A a \in Addr :
            (heap[a] = "live" /\ heap'[a] # "live") =>
                /\ pc = "idle"
                /\ last'.op = "unloadModel"
                /\ last'.args.h = a
                /\ heap'[a] = "freed"]_vars

\* C20 witness: a call ran into the loop on a session on which an earlier
\* call had generated, and the session is still Ready
C20_Witness ==
    /\ variant = "new"
    /\ pc = "loop"
    /\ eng.sample = 0
    /\ engine.sampler = "used"
    /\ last.op = "loadModel"
    /\ \A a \in issued : Ready(a)

\* C22: in the engine builds the backend is not reference counted: it is up
\* after every successful loadModel and down after every loadModel that
\* failed past the init and after every unloadModel of a session, however
\* many other sessions are live; so unloading one of two sessions leaves the
\* other live and Ready on a backend that is shut down.
C22_BackendTornDownUnderLiveSession ==
    variant # "simple" =>
        /\ (last.op = "unloadModel" /\ last.args.h # 0) => ~backend_up
        /\ (last.op = "loadModel" /\ last.ret # 0) => backend_up
        /\ ( /\ last.op = "loadModel"
             /\ last.ret = 0
             /\ Count(last.log, "llama_backend_init") = 1 ) => ~backend_up

\* C22 witness: two sessions were loaded and one of them unloaded; the other
\* is live and Ready and the backend is down
C22_Witness ==
    /\ variant = "new"
    /\ n_stale = 0
    /\ n_init = 2
    /\ last.op = "unloadModel"
    /\ last.args.h # 0
    /\ \E a \in issued : a # last.args.h /\ Ready(a)
    /\ ~backend_up

\* the number of sampled tokens that are not the end token
RECURSIVE NonEndSampled(_)
NonEndSampled(r) ==
    IF r = <<>> THEN 0
    ELSE (IF Head(r).tok = EOS THEN 0 ELSE Head(r).n) + NonEndSampled(Tail(r))

\* a call whose priming decode succeeded
Primed ==
    /\ variant # "simple"
    /\ \/ pc \in {"alloc", "loop", "accept", "piece", "decode", "finish"}
       \/ pc = "done" /\ eng.decode >= 1 /\ out.thrown # "RuntimeException"

\* C23: once the priming decode has succeeded, the decode calls number one
\* more than the sampled tokens that are not the end token (inside an
\* iteration, before its decode, the count is one behind); when the first
\* sample is the end token the call returns the empty string after exactly
\* one decode call.
C23_DecodeCount ==
    Primed =>
        /\ pc \in {"alloc", "loop", "finish", "done"} =>
              eng.decode = 1 + NonEndSampled(sampled)
        /\ pc \in {"accept", "piece", "decode"} =>
              eng.decode = NonEndSampled(sampled)
        /\ (pc \in {"finish", "done"} /\ out.stop = "eos" /\ eng.sample = 1) =>
              /\ eng.decode = 1
              /\ response = <<>>
              /\ pc = "done" => out.ret = "text" /\ out.text = <<>>

\* C23 witness: the first sample was the end token and the call has returned
C23_Witness ==
    /\ variant = "new"
    /\ pc = "done"
    /\ out.stop = "eos"
    /\ eng.sample = 1
    /\ eng.decode = 1
    /\ out.text = <<>>

\* the engine calls made inside the loop so far, and the decode calls
LoopCalls(s, a, p, d) ==
    /\ eng.sample = s
    /\ eng.accept = a
    /\ eng.piece = p
    /\ eng.decode = d

\* C25: an iteration whose sampled token is not the end token samples,
\* accepts, converts (and appends if the piece fits) and decodes, in this
\* order and each exactly once: after i complete iterations each of the four
\* calls was made i times (the decode once more, for the prompt), and inside
\* iteration i the calls already made are one ahead in program order; so a
\* token is decoded only after it was accepted.
C25_IterationOrder ==
    variant # "simple" =>
        /\ pc = "loop"   => LoopCalls(loc.i, loc.i, loc.i, loc.i + 1)
        /\ pc = "accept" => LoopCalls(loc.i + 1, loc.i, loc.i, loc.i + 1)
        /\ pc = "piece"  => LoopCalls(loc.i + 1, loc.i + 1, loc.i, loc.i + 1)
        /\ pc = "decode" =>
              /\ LoopCalls(loc.i + 1, loc.i + 1, loc.i + 1, loc.i + 1)
              /\ ~IsEndToken(loc.next_token)
        /\ eng.accept <= eng.sample
        /\ eng.decode <= eng.accept + 1

\* C25 witness: two iterations are complete and a third token was sampled,
\* accepted and appended and is about to be decoded
C25_Witness ==
    /\ variant = "new"
    /\ pc = "decode"
    /\ loc.i = 2
    /\ LoopCalls(3, 3, 3, 3)
    /\ loc.token_len > 0

\* a per-token decode has failed in the current call
DecodeHasFailed == out.stop = "decode_failed"

\* C26: a failing per-token decode is not retried. Once a decode inside the
\* loop has failed the call is past the loop (finishing or returned), it made
\* exactly one sample, accept and decode beyond the complete iterations, it
\* makes no further engine call, and it returns the text accumulated so far
\* without raising an error.
C26_DecodeFailureNotRetried ==
    /\ [](DecodeHasFailed =>
            /\ pc \in {"finish", "done"}
            /\ LoopCalls(loc.i + 1, loc.i + 1, loc.i + 1, loc.i + 2)
            /\ loc.generated_tokens = loc.i
            /\ out.thrown = "none"
            /\ pc = "done" => out.ret = "text" /\ out.text = response)
    /\ [][DecodeHasFailed => (eng' = eng \/ pc' = "idle")]_vars

\* C26 witness: the decode of the second generated token failed and the call
\* has returned the text of both tokens
C26_Witness ==
    /\ variant = "new"
    /\ DecodeHasFailed
    /\ pc = "done"
    /\ loc.i = 1
    /\ eng.decode = 3
    /\ out.text # <<>>

\* the step converts the sampled token into a piece of positive length and
\* does not copy it
PieceDropped ==
    /\ pc = "piece"
    /\ pc' = "decode"
    /\ loc'.token_len > 0
    /\ response' = response
    /\ loc'.response_pos = loc.response_pos

\* C28: inside the loop the write position is below 8192 - 256 and a piece
\* is at most 256 bytes long, so a piece of positive length fails the fit
\* test only at position 7935 with length 256; every other piece of positive
\* length is copied and moves the position by its length.
C28_FitFailsOnlyAtTheEdge ==
    /\ [](pc \in {"accept", "piece"} =>
            /\ loc.response_pos < MAX_RESPONSE_LENGTH - RESPONSE_MARGIN
            /\ llama_token_to_piece(loc.next_token) <= TOKEN_STR_SIZE)
    /\ [][PieceDropped =>
            /\ loc.response_pos = MAX_RESPONSE_LENGTH - RESPONSE_MARGIN - 1
            /\ loc'.token_len = TOKEN_STR_SIZE]_vars
    /\ [][(pc = "piece" /\ loc'.token_len > 0 /\ ~PieceDropped) =>
            /\ loc'.response_pos = loc.response_pos + loc'.token_len
            /\ response' = RleAppend(response, loc.next_token)]_vars

\* C28 witness: at position 7935 a piece of 256 bytes was converted and not
\* copied
C28_Witness ==
    /\ variant = "new"
    /\ pc = "decode"
    /\ loc.response_pos = 7935
    /\ loc.token_len = 256
    /\ response[Len(response)].tok = "full"

\* C29: in llama_jni.c every exit path frees each heap buffer it allocated
\* (the token buffer, the response buffer) exactly once and releases the
\* prompt's characters exactly once if it got them; nothing is freed or
\* released before it was obtained, or twice.
C29_OldBuildFreesOnce ==
    variant = "old" =>
        /\ mem.chars_release <= mem.chars_get /\ mem.chars_get <= 1
        /\ mem.tokens_free <= mem.tokens_malloc /\ mem.tokens_malloc <= 1
        /\ mem.response_free <= mem.response_malloc /\ mem.response_malloc <= 1
        /\ pc = "done" =>
              /\ mem.chars_release = mem.chars_get
              /\ mem.tokens_free = mem.tokens_malloc
              /\ mem.response_free = mem.response_malloc
              /\ out.ret = "text" =>
                    /\ mem.chars_get = 1
                    /\ mem.tokens_malloc = 1
                    /\ mem.response_malloc = 1
        /\ pc \in {"prime", "alloc"} =>
              mem.tokens_malloc = 1 /\ mem.tokens_free = 0
        /\ pc \in {"loop", "accept", "piece", "decode", "finish"} =>
              /\ mem.tokens_malloc = 1 /\ mem.tokens_free = 0
              /\ mem.response_malloc = 1 /\ mem.response_free = 0

\* C29 witness: the old build has left by the failure of the priming decode,
\* with the token buffer freed and the prompt's characters released
C29_Witness ==
    /\ variant = "old"
    /\ pc = "done"
    /\ out.thrown = "RuntimeException"
    /\ eng.decode = 1
    /\ mem.tokens_malloc = 1
    /\ mem.tokens_free = 1
    /\ mem.chars_get = 1
    /\ mem.chars_release = 1
    /\ mem.response_malloc = 0

\* the tokens submitted to the context by the call so far: the prompt's
\* tokens with the priming decode, one with every per-token decode
TokensSubmitted ==
    IF eng.decode = 0 THEN 0 ELSE loc.n_tokens + (eng.decode - 1)

\* C27 (as stated; refuted): the tokens a call submits to the context, the
\* prompt's and the generated ones together, never exceed the context size
\* n_ctx.
C27_ContextWindowRespected ==
    variant # "simple" => TokensSubmitted <= N_CTX

\* the sessions, the engine objects and the backend
Resources == <<heap, sess, obj, backend_up, n_init, n_free, global_model, faults>>

\* C24: the zero handle denotes no session. loadModel returns 0 exactly when
\* it fails (an exception is pending) and otherwise the address of a live
\* struct; generateText with handle 0 fails with IllegalArgumentException
\* having read no struct, made no engine call and changed no session;
\* unloadModel with handle 0 makes no call (no free, no backend teardown) and
\* changes nothing.
C24_ZeroHandleIsNoSession ==
    /\ [](last.op = "loadModel" =>
            /\ last.ret = 0 <=> last.thrown # "none"
            /\ last.ret # 0 => last.ret \in Addr /\ heap[last.ret] = "live")
    /\ []((pc = "done" /\ call.given /\ call.h = 0) =>
            /\ out.thrown = "IllegalArgumentException"
            /\ out.ret # "text"
            /\ call.rd = NullSession
            /\ eng = NoEng
            /\ mem = NoMem)
    /\ [][(pc = "idle" /\ pc' = "done" /\ call'.h = 0) =>
            UNCHANGED <<Resources, n_stale, last>>]_vars
    /\ []((last.op = "unloadModel" /\ last.args.h = 0) =>
            last.log = <<>> /\ last.thrown = "none")
    /\ [][(last'.op = "unloadModel" /\ last'.args.h = 0) =>
            UNCHANGED <<Resources, n_stale>>]_vars

\* C24 witness: with a session live and the backend up, unloadModel(0) has
\* returned and generateText(0) has failed
C24_Witness ==
    /\ variant = "new"
    /\ last.op = "unloadModel"
    /\ last.args.h = 0
    /\ backend_up
    /\ \E a \in issued : heap[a] = "live"
    /\ pc = "done"
    /\ call.h = 0
    /\ out.thrown = "IllegalArgumentException"

\* what a call has observably done: its position, the engine calls it made,
\* its counters, the text so far and its result
Observed ==
    [pc |-> pc, calls |-> eng, n_tokens |-> loc.n_tokens,
     batch |-> loc.prime_batch, i |-> loc.i, response_pos |-> loc.response_pos,
     generated_tokens |-> loc.generated_tokens, next_token |-> loc.next_token,
     response |-> response, ret |-> out.ret, text |-> out.text,
     thrown |-> out.thrown]

\* the step belongs to a call the claim compares: a call of llama_jni.c
\* whose token buffer was allocated, or a call of llama_jni_new.c whose
\* maxTokens is 512
Compared ==
    /\ variant # "simple"
    /\ pc = "idle" => (variant = "new" => call'.maxTokens = DEFAULT_MAX_TOKENS)
    /\ pc \notin {"idle", "done"} => loc.max_gen_tokens = DEFAULT_MAX_TOKENS
    /\ ~(variant = "old" /\ pc = "tokenize" /\ eng' = eng)

\* C30: on the generation path the two engine builds are equivalent: every
\* step of a llama_jni_new.c call with maxTokens = 512, and every step of a
\* llama_jni.c call, is the step llama_jni.c's generateText takes for the
\* same engine answer (token count, decode and allocation results, sampled
\* token): the same engine call, the same counters and text, the same
\* returned text or exception class; the failure of llama_jni.c's token
\* buffer allocation is left out.
C30_BuildsEquivalent ==
    [][Compared =>
         \E ok \in BOOLEAN :
            Observed' = OldStep(Observed,
                                [args |-> call', n |-> loc'.n_tokens, ok |-> ok,
                                 tok |-> loc'.next_token])]_vars

\* C30 witness: llama_jni_new.c, called with the limit 512, has generated
\* 512 tokens and returned their text
C30_Witness ==
    /\ variant = "new"
    /\ pc = "done"
    /\ loc.max_gen_tokens = DEFAULT_MAX_TOKENS
    /\ loc.generated_tokens = DEFAULT_MAX_TOKENS
    /\ out.ret = "text"
    /\ out.text # <<>>

\* thread t's call is between its memory-clear step and its return
Between(t) ==
    thr[t].pc \in {"tokenize", "prime", "loop", "accept", "decode", "return",
                   "finish"}

=============================================================================
